---------------------------- MODULE Spec2Model ----------------------------
(***************************************************************************)
(* The CBC padding-oracle attack of src/attacks/aes/attack.py: aes_attack  *)
(* (the coordinator), its per-block worker threads process_block, and the  *)
(* caller demonstrate_aes_attack.                                          *)
(*                                                                         *)
(* Scale.  A byte has ByteBits bits (8 in the program), so the candidate   *)
(* loop `range(256)` runs over NumCandidates = 2^ByteBits values and 0xFF  *)
(* is AllOnes.  The literal 16 of the program (the AES block length, which *)
(* aes_attack and demonstrate_aes_attack hard-code next to the block_size  *)
(* parameter) is AES_BLOCK.  AES itself is a library; it is modelled by a  *)
(* keyed bijection on blocks, which is all the attack relies on.           *)
(***************************************************************************)
EXTENDS Integers, Sequences, FiniteSets, TLC

ByteBits == 2
AES_BLOCK == 2
MaxTrace == 1

NumCandidates == 2 ^ ByteBits
AllOnes == NumCandidates - 1
Byte == 0 .. (NumCandidates - 1)

\* return values: None, a byte string, a raised exception; RUNNING before
\* the call has ended
NONE == [kind |-> "None", data |-> <<>>]
BytesValue(d) == [kind |-> "bytes", data |-> d]
RAISED == [kind |-> "raised", data |-> <<>>]
RUNNING == [kind |-> "running", data |-> <<>>]

\* the tuples put on the result queue: (idx, bytes) and (idx, None, str(e))
ResultEntry(b, d) == [idx |-> b, is_none |-> FALSE, data |-> d]
\* an error tuple that the filter of line 180 takes for a recovered block
PartialEntry(b) == [idx |-> b, is_none |-> FALSE, data |-> <<>>]

ErrorEntry(b) == [idx |-> b, is_none |-> TRUE, data |-> <<>>]

---------------------------------------------------------------------------
(* Bytes and byte strings *)

RECURSIVE XorBits(_, _, _)
XorBits(a, b, n) ==
    IF n = 0 THEN 0
    ELSE (((a % 2) + (b % 2)) % 2) + 2 * XorBits(a \div 2, b \div 2, n - 1)

XorTable == [a \in Byte |-> [b \in Byte |-> XorBits(a, b, ByteBits)]]

\* Python's a ^ b on two byte values
Xor(a, b) == XorTable[a][b]

Min(a, b) == IF a < b THEN a ELSE b

\* data[lo:hi] on a byte string, 0-based and half-open as in Python
Slice(data, lo, hi) == SubSeq(data, lo + 1, Min(hi, Len(data)))

\* [data[i:i+size] for i in range(0, len(data), size)]
Chunks(data, size) ==
    [j \in 1 .. ((Len(data) + size - 1) \div size) |->
        Slice(data, (j - 1) * size, j * size)]

RECURSIVE Join(_)
\* b''.join(parts)
Join(parts) ==
    IF parts = <<>> THEN <<>> ELSE Head(parts) \o Join(Tail(parts))

\* Crypto.Util.Padding.pad(data, size): PKCS#7
Pad(data, size) ==
    LET n == size - (Len(data) % size)
    IN  data \o [i \in 1 .. n |-> n]

\* whether Crypto.Util.Padding.unpad(data, size) returns (TRUE) or raises
\* ValueError (FALSE)
UnpadOK(data, size) ==
    /\ Len(data) > 0
    /\ Len(data) % size = 0
    /\ LET n == data[Len(data)]
       IN  /\ n >= 1
           /\ n <= Min(size, Len(data))
           /\ \A i \in (Len(data) - n + 1) .. Len(data) : data[i] = n

\* the value unpad(data, size) returns when it does not raise
Unpad(data, size) == SubSeq(data, 1, Len(data) - data[Len(data)])

---------------------------------------------------------------------------
(* The block cipher behind AES.new(key, AES.MODE_CBC, iv): a keyed        *)
(* bijection on AES_BLOCK-byte blocks and its inverse.                    *)

EncryptBlock(key, x) ==
    [i \in 1 .. AES_BLOCK |->
        (x[(i % AES_BLOCK) + 1] + key + i) % NumCandidates]

DecryptBlock(key, y) ==
    [j \in 1 .. AES_BLOCK |->
        LET i == ((j + AES_BLOCK - 2) % AES_BLOCK) + 1
        IN  (y[i] + 2 * NumCandidates - key - i) % NumCandidates]

XorBlock(x, y) == [i \in 1 .. Len(x) |-> Xor(x[i], y[i])]

RECURSIVE CBCEncryptFrom(_, _, _)
CBCEncryptFrom(key, prev, data) ==
    IF data = <<>> THEN <<>>
    ELSE LET c == EncryptBlock(key, XorBlock(SubSeq(data, 1, AES_BLOCK), prev))
         IN  c \o CBCEncryptFrom(key, c, SubSeq(data, AES_BLOCK + 1, Len(data)))

\* cipher.encrypt(data), len(data) a multiple of AES_BLOCK
CBCEncrypt(key, iv, data) == CBCEncryptFrom(key, iv, data)

\* cipher.decrypt(data), len(data) a multiple of AES_BLOCK
CBCDecrypt(key, iv, data) ==
    LET cs == Chunks(data, AES_BLOCK)
    IN  Join([j \in 1 .. Len(cs) |->
                XorBlock(DecryptBlock(key, cs[j]),
                         IF j = 1 THEN iv ELSE cs[j - 1])])

---------------------------------------------------------------------------
(* Inputs.  demonstrate_aes_attack(plaintext_bytes, block_size,           *)
(* visual_callback) draws a key and an IV, encrypts and attacks with its  *)
(* own padding oracle; aes_attack(ciphertext, padding_oracle, iv,         *)
(* block_size, visual_callback) is also called directly with any byte     *)
(* strings and any oracle.                                                *)

PlainLens == {0, 1, AES_BLOCK - 1, AES_BLOCK, AES_BLOCK + 1}
FillBytes == {1, 2}
Plaintexts == {[i \in 1 .. n |-> f] : n \in PlainLens, f \in FillBytes}
Keys == {1}
IVs == {[i \in 1 .. AES_BLOCK |-> v] : v \in {0, AllOnes}}
BlockSizes == {AES_BLOCK, AES_BLOCK + 1}
OracleKinds == {"padding", "always_true", "always_false"}

\* what the surroundings of one run may do: whether a callback is passed,
\* and whether the oracle, the callback or the coordinator's queue
\* handling may raise
Env(cb, of, cf, xf) ==
    [callback |-> cb, oracleFaults |-> of, callbackFaults |-> cf, coordFaults |-> xf]

Quiet == {Env("none", FALSE, FALSE, FALSE), Env("given", FALSE, FALSE, FALSE)}

Faulty == {Env("none", TRUE, FALSE, FALSE), Env("given", FALSE, TRUE, FALSE),
           Env("none", FALSE, FALSE, TRUE), Env("given", TRUE, FALSE, FALSE)}

Environments == Quiet \cup Faulty

\* demonstrate_aes_attack: lines 202-210 and the oracle of lines 213-221
DemoCall(p, k, v, bs, e) ==
    [entry |-> "demonstrate_aes_attack", plaintext |-> p, key |-> k, iv |-> v,
     ciphertext |-> CBCEncrypt(k, v, Pad(p, AES_BLOCK)),
     block_size |-> bs, oracle |-> "padding", env |-> e]

\* the two-block plaintext the fault environments are run on
FaultPlaintext == [i \in 1 .. AES_BLOCK |-> 2]

DemoInputs ==
    { DemoCall(p, k, v, bs, e) :
        p \in Plaintexts, k \in Keys, v \in IVs, bs \in BlockSizes, e \in Quiet }
    \cup
    { DemoCall(FaultPlaintext, k, [i \in 1 .. AES_BLOCK |-> AllOnes], AES_BLOCK, e) :
        k \in Keys, e \in Faulty }

\* a byte string of the given length
Bytes(n) == [i \in 1 .. n |-> i % NumCandidates]

\* aes_attack(ciphertext, padding_oracle, iv, block_size, visual_callback)
DirectCall(ct, v, bs, k, o, e) ==
    [entry |-> "aes_attack", plaintext |-> <<>>, key |-> k, iv |-> v,
     ciphertext |-> ct, block_size |-> bs, oracle |-> o, env |-> e]

\* direct calls of aes_attack: whole-block ciphertexts against stub oracles
\* in every environment, and ciphertexts and IVs of other lengths
DirectInputs ==
    { DirectCall(Bytes(ctlen), Bytes(AES_BLOCK), AES_BLOCK, k, o, e) :
        ctlen \in {AES_BLOCK, 2 * AES_BLOCK}, k \in Keys,
        o \in {"always_true", "always_false"}, e \in Environments }
    \cup
    { DirectCall(Bytes(AES_BLOCK + 1), Bytes(ivlen), bs, k, o,
                 Env("none", FALSE, FALSE, FALSE)) :
        ivlen \in {AES_BLOCK, AES_BLOCK + 1}, bs \in BlockSizes, k \in Keys,
        o \in OracleKinds }

Inputs == DemoInputs \cup DirectInputs

---------------------------------------------------------------------------
(* State *)

VARIABLES
    inp,            \* the arguments of the call, fixed for the run
    cpc,            \* where the coordinator (the calling thread) is
    blocks,         \* blocks[1] is the IV, blocks[i + 1] ciphertext block i
    total_blocks,
    threads,        \* number of worker threads started
    result_queue,
    results,
    stop_event,
    ret,            \* what aes_attack returned or raised
    recovered,      \* second element of demonstrate_aes_attack's tuple
    workers,        \* the locals of process_block(b), per block index b
    trace           \* the first MaxTrace events delivered to the callback

vars == <<inp, cpc, blocks, total_blocks, threads, result_queue, results,
          stop_event, ret, recovered, workers, trace>>

coordVars == <<cpc, blocks, total_blocks, threads, results, ret, recovered>>

\* the callback's arguments: (block, byte position, plaintext byte,
\* intermediate byte, status, test byte); -1 stands for None
Event(b, pos, tag, pbyte, ibyte, tbyte) ==
    [block |-> b, pos |-> pos, tag |-> tag, plaintext_byte |-> pbyte,
     intermediate_byte |-> ibyte, test_byte |-> tbyte]

Zeros(n) == [i \in 1 .. n |-> 0]

\* the locals of a worker that has not been started
IdleWorker ==
    [pc |-> "idle", previous_block |-> <<>>, target_block |-> <<>>,
     padding_byte |-> 0, byte_pos |-> 0, test_byte |-> 0, test_block |-> <<>>,
     candidate_values |-> <<>>, verified_values |-> <<>>, vidx |-> 0,
     intermediate_bytes |-> <<>>, plaintext_bytes |-> <<>>,
     \* history: oracle calls made, the last query, events delivered,
     \* positions whose search found no candidate, calls made after stop
     calls |-> 0, last_query |-> <<>>, events |-> <<>>, exhausted |-> {},
     calls_after_stop |-> 0,
     \* the positions in the order the byte loop took them up, oracle calls
     \* made after a position was exhausted, whether an oracle call raised
     \* and the calls made after that
     attempted |-> <<>>, calls_after_exhaustion |-> 0, oracle_raised |-> FALSE,
     calls_after_raise |-> 0,
     \* the writes to intermediate_bytes and plaintext_bytes in the order made
     writes |-> <<>>]

Init ==
    /\ inp \in Inputs
    /\ cpc = "entry"
    /\ blocks = <<>>
    /\ total_blocks = 0
    /\ threads = 0
    /\ result_queue = <<>>
    /\ results = <<>>
    /\ stop_event = FALSE
    /\ ret = RUNNING
    /\ recovered = RUNNING
    /\ workers = <<>>
    /\ trace = <<>>

---------------------------------------------------------------------------
(* The oracle *)

\* the padding oracle of demonstrate_aes_attack and of the GUI: decrypt and
\* unpad inside try, ValueError -> False
PaddingOracle(query) ==
    /\ Len(inp.iv) = AES_BLOCK
    /\ Len(query) % AES_BLOCK = 0
    /\ UnpadOK(CBCDecrypt(inp.key, inp.iv, query), inp.block_size)

\* the answer of padding_oracle(query) when it returns
Oracle(query) ==
    CASE inp.oracle = "always_true" -> TRUE
      [] inp.oracle = "always_false" -> FALSE
      [] inp.oracle = "padding" -> PaddingOracle(query)

---------------------------------------------------------------------------
(* The coordinator: aes_attack outside process_block *)

\* lines 23-40: pad the ciphertext to the literal 16, split, prepend the IV
Prepare ==
    /\ cpc = "entry"
    /\ LET ct == IF Len(inp.ciphertext) % AES_BLOCK # 0
                 THEN Pad(inp.ciphertext, AES_BLOCK)
                 ELSE inp.ciphertext
           bl == <<inp.iv>> \o Chunks(ct, inp.block_size)
       IN  /\ blocks' = bl
           /\ total_blocks' = Len(bl) - 1
           /\ workers' = [b \in 1 .. (Len(bl) - 1) |-> IdleWorker]
    /\ cpc' = "spawn"
    /\ UNCHANGED <<inp, threads, result_queue, results, stop_event, ret,
                   recovered, trace>>

\* lines 152-159: one iteration of the loop that starts the threads (the
\* loop ends after the last block, or at once when the stop event is set)
StartThread ==
    /\ cpc = "spawn"
    /\ IF threads < total_blocks /\ ~stop_event
       THEN /\ threads' = threads + 1
            /\ workers' = [workers EXCEPT ![threads + 1].pc = "block_start"]
            /\ cpc' = IF threads + 1 < total_blocks THEN "spawn" ELSE "collect"
       ELSE /\ cpc' = "collect"
            /\ UNCHANGED <<threads, workers>>
    /\ UNCHANGED <<inp, blocks, total_blocks, result_queue, results,
                   stop_event, ret, recovered, trace>>

\* lines 165-168: one result_queue.get(), which blocks while the queue is
\* empty
Collect ==
    /\ cpc = "collect"
    /\ Len(results) < threads
    /\ result_queue # <<>>
    /\ results' = Append(results, Head(result_queue))
    /\ result_queue' = Tail(result_queue)
    /\ UNCHANGED <<inp, cpc, blocks, total_blocks, threads, stop_event, ret,
                   recovered, workers, trace>>

\* the loop of lines 165-168 ends
CollectDone ==
    /\ cpc = "collect"
    /\ Len(results) = threads
    /\ cpc' = "join"
    /\ UNCHANGED <<inp, blocks, total_blocks, threads, result_queue, results,
                   stop_event, ret, recovered, workers, trace>>

\* lines 171-172: thread.join(timeout=0.1) returns whether or not the thread
\* has finished
JoinThreads ==
    /\ cpc = "join"
    /\ cpc' = "assemble"
    /\ UNCHANGED <<inp, blocks, total_blocks, threads, result_queue, results,
                   stop_event, ret, recovered, workers, trace>>

\* lines 174-176: an exception inside the try block sets the stop event and
\* is raised again
CoordinatorFault ==
    /\ cpc \in {"collect", "join"}
    /\ inp.env.coordFaults
    /\ stop_event' = TRUE
    /\ ret' = RAISED
    /\ cpc' = "returned"
    /\ UNCHANGED <<inp, blocks, total_blocks, threads, result_queue, results,
                   recovered, workers, trace>>

RECURSIVE InsertByIndex(_, _)
\* insert entry r into the sorted list s after every entry whose block index
\* is not larger (list.sort is stable)
InsertByIndex(s, r) ==
    IF s = <<>> THEN <<r>>
    ELSE IF Head(s).idx <= r.idx THEN <<Head(s)>> \o InsertByIndex(Tail(s), r)
    ELSE <<r>> \o s

\* the results left in the order the workers completed
CompletionOrder(s) == s

RECURSIVE SortByIndex(_)
\* line 179: results.sort(key=lambda x: x[0])
SortByIndex(s) ==
    IF s = <<>> THEN <<>>
    ELSE InsertByIndex(SortByIndex(SubSeq(s, 1, Len(s) - 1)), s[Len(s)])

\* the second element of every entry, None entries included
AllEntries(s) == [i \in 1 .. Len(s) |-> s[i].data]

\* line 180: [result[1] for result in results if result[1] is not None]
PlaintextBlocks(s) ==
    LET kept == SelectSeq(s, LAMBDA r : ~r.is_none)
    IN  [i \in 1 .. Len(kept) |-> kept[i].data]

\* lines 179-187: the value aes_attack returns
Assembled(rs) ==
    LET sorted == SortByIndex(rs)
        plaintext_blocks == PlaintextBlocks(sorted)
    IN  IF Len(plaintext_blocks) # total_blocks THEN NONE
        ELSE BytesValue(Join(plaintext_blocks))

\* lines 178-187
Assemble ==
    /\ cpc = "assemble"
    /\ ret' = Assembled(results)
    /\ cpc' = "returned"
    /\ UNCHANGED <<inp, blocks, total_blocks, threads, result_queue, results,
                   stop_event, recovered, workers, trace>>

\* lines 227-233: the value demonstrate_aes_attack returns as `recovered`;
\* `if recovered` is false for None and for b''
DemoRecovered(r) ==
    IF r.kind = "bytes" /\ r.data # <<>> /\ UnpadOK(r.data, inp.block_size)
    THEN BytesValue(Unpad(r.data, inp.block_size))
    ELSE r

\* lines 224-233: demonstrate_aes_attack after aes_attack has returned
DemoFinish ==
    /\ cpc = "returned"
    /\ inp.entry = "demonstrate_aes_attack"
    /\ ret # RAISED
    /\ recovered' = DemoRecovered(ret)
    /\ cpc' = "demo_returned"
    /\ UNCHANGED <<inp, blocks, total_blocks, threads, result_queue, results,
                   stop_event, ret, workers, trace>>

---------------------------------------------------------------------------
(* The workers: process_block(b), one thread per ciphertext block.  A step *)
(* is the code from one shared operation (a read of stop_event, a callback *)
(* invocation, an oracle call, a queue put) to just before the next.       *)

\* `if visual_callback: visual_callback(...)`: the events this hands over
Delivered(ev) == IF inp.env.callback = "none" THEN <<>> ELSE <<ev>>

CallbackRaises == inp.env.callback # "none" /\ inp.env.callbackFaults

\* a worker whose test block is the list's own block, not a copy of it
AliasedStep(b, w, evs) ==
    /\ workers' = [workers EXCEPT ![b] = [w EXCEPT !.events = @ \o evs]]
    /\ trace' = Slice(trace \o evs, 0, MaxTrace)
    /\ blocks' = IF w.test_block = <<>> THEN blocks
                 ELSE [blocks EXCEPT ![b] = w.test_block]
    /\ UNCHANGED <<inp, cpc, total_blocks, threads, results, ret, recovered,
                   result_queue, stop_event>>

\* worker b goes on with locals w, having delivered the events evs
Step(b, w, evs) ==
    /\ workers' = [workers EXCEPT ![b] = [w EXCEPT !.events = @ \o evs]]
    /\ trace' = Slice(trace \o evs, 0, MaxTrace)
    /\ UNCHANGED <<inp, coordVars, result_queue, stop_event>>

\* an exception that ends the worker with nothing put on the queue
SilentExcept(b, w, evs) ==
    /\ workers' = [workers EXCEPT ![b] =
                      [w EXCEPT !.events = @ \o evs, !.pc = "finished"]]
    /\ trace' = Slice(trace \o evs, 0, MaxTrace)
    /\ UNCHANGED <<inp, coordVars, result_queue, stop_event>>

\* lines 147-148: an exception ends the worker with an error tuple
Except(b, w, evs) ==
    /\ workers' = [workers EXCEPT ![b] =
                      [w EXCEPT !.events = @ \o evs, !.pc = "finished"]]
    /\ trace' = Slice(trace \o evs, 0, MaxTrace)
    /\ result_queue' = Append(result_queue, ErrorEntry(b))
    /\ UNCHANGED <<inp, coordVars, stop_event>>

\* a worker that reads the stop event and goes on to the oracle call
Unheeded(b) == Step(b, [workers[b] EXCEPT !.pc = "query"], <<>>)

\* `if stop_event.is_set(): return None`: the worker ends and puts nothing
Stopped(b) == Step(b, [workers[b] EXCEPT !.pc = "stopped"], <<>>)

\* the byte loop taking up the same position again
RepeatingByte(w) == [w EXCEPT !.pc = "byte_loop"]

\* the byte loop stepping over every second padding value
SkippingByte(w) ==
    IF w.padding_byte + 1 < inp.block_size
    THEN [w EXCEPT !.padding_byte = @ + 2, !.pc = "byte_loop"]
    ELSE [w EXCEPT !.pc = "put"]

\* the next iteration of `for padding_byte in range(1, block_size + 1)`, or
\* the end of the loop
NextByte(w) ==
    IF w.padding_byte < inp.block_size
    THEN [w EXCEPT !.padding_byte = @ + 1, !.pc = "byte_loop"]
    ELSE [w EXCEPT !.pc = "put"]

\* lines 44-53
BlockStart(b) ==
    /\ workers[b].pc = "block_start"
    /\ LET w1 == [workers[b] EXCEPT !.target_block = blocks[b + 1],
                                    !.previous_block = blocks[b]]
           w2 == [w1 EXCEPT !.intermediate_bytes = Zeros(inp.block_size),
                            !.plaintext_bytes = Zeros(inp.block_size),
                            !.padding_byte = 1,
                            !.pc = "byte_loop"]
       IN  \/ Step(b, w2, Delivered(Event(b, -1, "block_start", -1, -1, -1)))
           \/ CallbackRaises /\ Except(b, w1, <<>>)

\* lines 70-71: force the positions already discovered to the padding value
ForceKnown(test_block, intermediate_bytes, byte_pos, padding_byte) ==
    [i \in 1 .. Len(test_block) |->
        IF i - 1 > byte_pos /\ i - 1 < inp.block_size
        THEN Xor(Xor(test_block[i], intermediate_bytes[i]), padding_byte)
        ELSE test_block[i]]

\* lines 57-75
ByteLoop(b) ==
    /\ workers[b].pc = "byte_loop"
    /\ \/ stop_event /\ Stopped(b)
       \/ /\ ~stop_event
          /\ LET w == workers[b]
                 byte_pos == inp.block_size - w.padding_byte
                 ev == Delivered(Event(b, byte_pos, "byte_start", -1, -1, -1))
                 w1 == [w EXCEPT !.byte_pos = byte_pos,
                                 !.attempted = Append(@, byte_pos)]
                 indexError == \E i \in (byte_pos + 1) .. (inp.block_size - 1) :
                                   i >= Len(w.previous_block)
                 w2 == [w1 EXCEPT
                          !.test_block = ForceKnown(w.previous_block,
                                 w.intermediate_bytes, byte_pos, w.padding_byte),
                          !.candidate_values = <<>>,
                          !.test_byte = 0,
                          !.pc = "candidate"]
             IN  \/ IF indexError THEN Except(b, w1, ev) ELSE Step(b, w2, ev)
                 \/ CallbackRaises /\ Except(b, w1, <<>>)

\* lines 79-87
Candidate(b) ==
    /\ workers[b].pc = "candidate"
    /\ \/ stop_event /\ Stopped(b)
       \/ /\ ~stop_event
          /\ LET w == workers[b]
                 indexError == w.byte_pos >= Len(w.test_block)
                 w1 == [w EXCEPT !.test_block[w.byte_pos + 1] = Xor(@, w.test_byte),
                                 !.pc = "query"]
                 ev == Delivered(Event(b, w.byte_pos, "testing", -1, -1, w.test_byte))
             IN  \/ IF indexError THEN Except(b, w, <<>>) ELSE Step(b, w1, ev)
                 \/ ~indexError /\ CallbackRaises /\ Except(b, w1, <<>>)

\* the verification pass run at every padding value instead of the last byte only
NeedsVerificationAtEveryByte(padding_byte) == padding_byte >= 1

\* line 99: the last byte of the block gets the additional verification
NeedsVerification(padding_byte) == padding_byte = 1

\* the last accepted candidate taken where the first one is
TakeLastCandidate(w) ==
    IF w.candidate_values = <<>>
    THEN NextByte([w EXCEPT !.exhausted = @ \cup {w.byte_pos}])
    ELSE IF NeedsVerification(w.padding_byte)
    THEN [w EXCEPT !.verified_values = <<>>, !.vidx = 1, !.pc = "verify_check"]
    ELSE [w EXCEPT !.test_byte = w.candidate_values[Len(w.candidate_values)],
                   !.pc = "found"]

\* lines 98-128 once the candidate loop has ended
AfterSearch(w) ==
    IF w.candidate_values = <<>>
    THEN NextByte([w EXCEPT !.exhausted = @ \cup {w.byte_pos}])
    ELSE IF NeedsVerification(w.padding_byte)
    THEN [w EXCEPT !.verified_values = <<>>, !.vidx = 1, !.pc = "verify_check"]
    ELSE [w EXCEPT !.test_byte = w.candidate_values[1], !.pc = "found"]

\* an oracle call made by worker w with the given query
Called(w, query) ==
    [w EXCEPT !.calls = @ + 1,
              !.last_query = query,
              !.calls_after_stop = @ + (IF stop_event THEN 1 ELSE 0),
              !.calls_after_exhaustion = @ + (IF w.exhausted # {} THEN 1 ELSE 0),
              !.calls_after_raise = @ + (IF w.oracle_raised THEN 1 ELSE 0)]

\* lines 89-95, and the end of the loop of line 78
Query(b) ==
    /\ workers[b].pc = "query"
    /\ LET w == workers[b]
           test_input == w.test_block \o w.target_block
           w1 == Called(w, test_input)
           w2 == [w1 EXCEPT
                    !.candidate_values =
                        IF Oracle(test_input) THEN Append(@, w.test_byte) ELSE @,
                    !.test_block[w.byte_pos + 1] = w.previous_block[w.byte_pos + 1]]
           w3 == IF w.test_byte + 1 < NumCandidates
                 THEN [w2 EXCEPT !.test_byte = @ + 1, !.pc = "candidate"]
                 ELSE AfterSearch(w2)
       IN  \/ Step(b, w3, <<>>)
           \/ inp.env.oracleFaults /\
                 Except(b, [w1 EXCEPT !.oracle_raised = TRUE], <<>>)

\* lines 103-107
VerifyCheck(b) ==
    /\ workers[b].pc = "verify_check"
    /\ \/ stop_event /\ Stopped(b)
       \/ /\ ~stop_event
          /\ LET w == workers[b]
             IN  Step(b, [w EXCEPT !.test_block[w.byte_pos + 1] =
                                       Xor(@, w.candidate_values[w.vidx]),
                                   !.pc = "verify_query"], <<>>)

\* line 114: a candidate is kept when the oracle rejects the verifier
Verified(accepted) == ~accepted

\* the first accepted candidate taken whatever the verification found
FirstCandidate(candidate_values, verified_values) == candidate_values[1]

\* lines 120-125
ChosenByte(candidate_values, verified_values) ==
    IF verified_values # <<>> THEN verified_values[1] ELSE candidate_values[1]

\* lines 109-125
VerifyQuery(b) ==
    /\ workers[b].pc = "verify_query"
    /\ LET w == workers[b]
           calls == w.byte_pos > 0
           verifier == [w.test_block EXCEPT ![w.byte_pos] = Xor(@, AllOnes)]
           query == verifier \o w.target_block
           w1 == IF calls THEN Called(w, query) ELSE w
           valid == IF calls THEN Verified(Oracle(query)) ELSE TRUE
           w2 == [w1 EXCEPT
                    !.verified_values =
                        IF valid THEN Append(@, w.candidate_values[w.vidx]) ELSE @,
                    !.test_block[w.byte_pos + 1] = w.previous_block[w.byte_pos + 1]]
           w3 == IF w.vidx < Len(w.candidate_values)
                 THEN [w2 EXCEPT !.vidx = @ + 1, !.pc = "verify_check"]
                 ELSE [w2 EXCEPT !.test_byte = ChosenByte(w2.candidate_values,
                                                          w2.verified_values),
                                 !.pc = "found"]
       IN  \/ Step(b, w3, <<>>)
           \/ calls /\ inp.env.oracleFaults /\
                 Except(b, [w1 EXCEPT !.oracle_raised = TRUE], <<>>)

\* line 131
IntermediateByte(test_byte, padding_byte) == Xor(test_byte, padding_byte)

\* line 133
PlaintextByte(intermediate_byte, previous_byte) ==
    Xor(intermediate_byte, previous_byte)

\* lines 130-139
Found(b) ==
    /\ workers[b].pc = "found"
    /\ LET w == workers[b]
           intermediate_byte == IntermediateByte(w.test_byte, w.padding_byte)
           plaintext_byte ==
               PlaintextByte(intermediate_byte, w.previous_block[w.byte_pos + 1])
           w1 == [w EXCEPT !.intermediate_bytes[w.byte_pos + 1] = intermediate_byte,
                           !.plaintext_bytes[w.byte_pos + 1] = plaintext_byte,
                           !.writes = Append(@, [pos |-> w.byte_pos,
                                                 intermediate_byte |-> intermediate_byte,
                                                 plaintext_byte |-> plaintext_byte])]
           ev == Delivered(Event(b, w.byte_pos, "found", plaintext_byte,
                                 intermediate_byte, -1))
       IN  \/ Step(b, NextByte(w1), ev)
           \/ CallbackRaises /\ Except(b, w1, <<>>)

\* line 142
Put(b) ==
    /\ workers[b].pc = "put"
    /\ workers' = [workers EXCEPT ![b].pc = "complete"]
    /\ result_queue' = Append(result_queue,
                              ResultEntry(b, workers[b].plaintext_bytes))
    /\ UNCHANGED <<inp, coordVars, stop_event, trace>>

\* lines 143-145
Complete(b) ==
    /\ workers[b].pc = "complete"
    /\ \/ Step(b, [workers[b] EXCEPT !.pc = "finished"],
               Delivered(Event(b, -1, "complete", -1, -1, -1)))
       \/ CallbackRaises /\ Except(b, workers[b], <<>>)

WorkerBlockStart == \E b \in DOMAIN workers : BlockStart(b)
WorkerByteLoop == \E b \in DOMAIN workers : ByteLoop(b)
WorkerCandidate == \E b \in DOMAIN workers : Candidate(b)
WorkerQuery == \E b \in DOMAIN workers : Query(b)
WorkerVerifyCheck == \E b \in DOMAIN workers : VerifyCheck(b)
WorkerVerifyQuery == \E b \in DOMAIN workers : VerifyQuery(b)
WorkerFound == \E b \in DOMAIN workers : Found(b)
WorkerPut == \E b \in DOMAIN workers : Put(b)
WorkerComplete == \E b \in DOMAIN workers : Complete(b)

Next ==
    \/ Prepare
    \/ StartThread
    \/ Collect
    \/ CollectDone
    \/ JoinThreads
    \/ CoordinatorFault
    \/ Assemble
    \/ DemoFinish
    \/ WorkerBlockStart
    \/ WorkerByteLoop
    \/ WorkerCandidate
    \/ WorkerQuery
    \/ WorkerVerifyCheck
    \/ WorkerVerifyQuery
    \/ WorkerFound
    \/ WorkerPut
    \/ WorkerComplete

Spec == Init /\ [][Next]_vars

---------------------------------------------------------------------------
(* What one run of process_block computes when nothing raises and nothing *)
(* stops it, written as a function of the two blocks it reads: the        *)
(* sequential meaning the concurrent runs are compared with.              *)

Deterministic ==
    /\ ~inp.env.oracleFaults
    /\ ~inp.env.callbackFaults
    /\ ~inp.env.coordFaults

Returned == cpc \in {"returned", "demo_returned"}

IsPrefix(s, t) == Len(s) <= Len(t) /\ s = SubSeq(t, 1, Len(s))

RECURSIVE Ascending(_)
\* the members of a set of numbers in increasing order
Ascending(S) ==
    IF S = {} THEN <<>>
    ELSE LET m == CHOOSE x \in S : \A y \in S : x <= y
         IN  <<m>> \o Ascending(S \ {m})

\* the test block for one position: solved positions forced to the padding
RefTestBlock(prev, inter, pos, pad) ==
    [i \in 1 .. Len(prev) |->
        IF pos + 1 < i /\ i <= inp.block_size
        THEN Xor(prev[i], Xor(inter[i], pad))
        ELSE prev[i]]

\* the candidates the oracle accepts at a position
RefAccepted(tb, target, pos) ==
    {t \in Byte : Oracle([tb EXCEPT ![pos + 1] = Xor(@, t)] \o target)}

\* the accepted candidates the oracle rejects once the byte before is flipped
RefRejectedWhenFlipped(tb, target, pos, accepted) ==
    {t \in accepted :
        pos > 0 =>
            ~Oracle([tb EXCEPT ![pos + 1] = Xor(@, t),
                               ![pos] = Xor(@, AllOnes)] \o target)}

\* the candidate taken at a position, -1 when none is
RefChoice(tb, target, pos, pad) ==
    LET acc == RefAccepted(tb, target, pos)
        ver == RefRejectedWhenFlipped(tb, target, pos, acc)
    IN  IF acc = {} THEN -1
        ELSE IF pad = 1 /\ ver # {} THEN Ascending(ver)[1]
        ELSE Ascending(acc)[1]

RECURSIVE RefBytes(_, _, _, _, _, _, _)
\* positions block_size - pad down to 0 of block b, after the higher ones
RefBytes(b, prev, target, pad, inter, plain, evs) ==
    IF pad > inp.block_size
    THEN [ok |-> TRUE, plaintext_bytes |-> plain, intermediate_bytes |-> inter,
          events |-> Append(evs, Event(b, -1, "complete", -1, -1, -1))]
    ELSE LET pos == inp.block_size - pad
             tb == RefTestBlock(prev, inter, pos, pad)
             c == RefChoice(tb, target, pos, pad)
             ib == Xor(c, pad)
             pb == Xor(ib, prev[pos + 1])
             searching == <<Event(b, pos, "byte_start", -1, -1, -1)>> \o
                          [t \in 1 .. NumCandidates |->
                              Event(b, pos, "testing", -1, -1, t - 1)]
         IN  IF c = -1
             THEN RefBytes(b, prev, target, pad + 1, inter, plain, evs \o searching)
             ELSE RefBytes(b, prev, target, pad + 1,
                           [inter EXCEPT ![pos + 1] = ib],
                           [plain EXCEPT ![pos + 1] = pb],
                           evs \o searching \o <<Event(b, pos, "found", pb, ib, -1)>>)

\* block b: its recovered bytes, or not ok when the previous block is
\* shorter than block_size (IndexError at the first write)
RefBlock(b) ==
    LET prev == blocks[b]
        target == blocks[b + 1]
        start == <<Event(b, -1, "block_start", -1, -1, -1)>>
    IN  IF Len(prev) < inp.block_size
        THEN [ok |-> FALSE, plaintext_bytes |-> <<>>, intermediate_bytes |-> <<>>,
              events |-> Append(start, Event(b, inp.block_size - 1, "byte_start",
                                             -1, -1, -1))]
        ELSE RefBytes(b, prev, target, 1, Zeros(inp.block_size),
                      Zeros(inp.block_size), start)

\* the events of block b in the order the callback gets them
RefEvents(b) == IF inp.env.callback = "none" THEN <<>> ELSE RefBlock(b).events

\* the value aes_attack returns: the blocks in ascending index, or None
RefResult ==
    IF \A b \in 1 .. total_blocks : RefBlock(b).ok
    THEN BytesValue(Join([b \in 1 .. total_blocks |-> RefBlock(b).plaintext_bytes]))
    ELSE NONE

---------------------------------------------------------------------------
(* The claims *)

\* the preconditions the specification states for attack(): the ciphertext
\* is whole blocks and the IV is one block
ValidInput ==
    /\ Len(inp.ciphertext) % inp.block_size = 0
    /\ Len(inp.iv) = inp.block_size

\* aes_attack called as demonstrate_aes_attack(P, 16) calls it: the CBC
\* encryption of the padded P, the encryption IV, the oracle under the same
\* key, block_size the AES block
RoundTripCall ==
    /\ inp.entry = "demonstrate_aes_attack"
    /\ inp.block_size = AES_BLOCK
    /\ Deterministic

\* C1 (as claimed): round trip.  When aes_attack is given the CBC encryption
\* of PKCS#7-padded P, the IV and the padding oracle of the same key, the
\* value it returns is P once the padding is removed.
C1_RoundTrip ==
    (Returned /\ RoundTripCall) =>
        /\ ret.kind = "bytes"
        /\ UnpadOK(ret.data, inp.block_size)
        /\ Unpad(ret.data, inp.block_size) = inp.plaintext

\* C2 (as claimed): the second element of demonstrate_aes_attack(P, 16) is P.
C2_DemoRecoversPlaintext ==
    (cpc = "demo_returned" /\ RoundTripCall) =>
        recovered = BytesValue(inp.plaintext)

\* C3 (as claimed): when len(ciphertext) is no multiple of block_size or
\* len(iv) differs from block_size, no worker is started and the oracle is
\* never called.
C3_InvalidInputNoTraffic ==
    ~ValidInput =>
        /\ threads = 0
        /\ \A b \in DOMAIN workers :
              workers[b].pc = "idle" /\ workers[b].calls = 0

\* C4 (as claimed): every oracle query for an input that meets the length
\* preconditions is 2 * block_size bytes: block_size bytes of the modified
\* previous block, then the unmodified block_size-byte target block.
C4_QueryShape ==
    ValidInput =>
        \A b \in DOMAIN workers :
            workers[b].calls > 0 =>
                /\ Len(workers[b].last_query) = 2 * inp.block_size
                /\ Len(blocks[b + 1]) = inp.block_size
                /\ SubSeq(workers[b].last_query, inp.block_size + 1,
                          2 * inp.block_size) = blocks[b + 1]

\* C5 (as claimed): no block makes more than block_size * 257 oracle calls,
\* whatever the oracle answers.
C5_CallBound ==
    \A b \in DOMAIN workers :
        workers[b].calls <= inp.block_size * (NumCandidates + 1)

\* C5 (amended): no block makes more than block_size * 256 + 256 oracle
\* calls: 256 search calls per byte position, and for the last byte one
\* verification call per accepted candidate.
C5_CallBoundAmended ==
    \A b \in DOMAIN workers :
        workers[b].calls <= inp.block_size * NumCandidates + NumCandidates

\* C5 witness: against the oracle that always answers true a block has made
\* all block_size * 256 + 256 calls.
C5_Witness ==
    \E b \in DOMAIN workers :
        /\ inp.oracle = "always_true"
        /\ workers[b].calls = inp.block_size * NumCandidates + NumCandidates

\* the events that report a position with no accepted candidate
FailureEvents(b) ==
    SelectSeq(workers[b].events, LAMBDA e : e.tag \in {"failed", "exhausted"})

\* C6 (as claimed): against the oracle that always answers false aes_attack
\* returns None, and a callback gets exactly one failure event, for byte
\* position block_size - 1.
C6_AlwaysFalseGivesNone ==
    (Returned /\ Deterministic /\ inp.oracle = "always_false") =>
        /\ ret = NONE
        /\ inp.env.callback # "none" =>
              \E b \in DOMAIN workers :
                  /\ Len(FailureEvents(b)) = 1
                  /\ FailureEvents(b)[1].pos = inp.block_size - 1
                  /\ \A c \in DOMAIN workers \ {b} : FailureEvents(c) = <<>>

\* C7 (as claimed): when a byte position of some block has exhausted all
\* candidates, aes_attack returns None.
C7_ExhaustedBlockGivesNone ==
    (Returned /\ Deterministic /\
     \E b \in DOMAIN workers : workers[b].exhausted # {}) =>
        ret = NONE

RefTrace == Join([b \in 1 .. total_blocks |-> RefEvents(b)])

C10_CancelledOutcome ==
    (stop_event /\ Returned) =>
        /\ ret.kind = "cancelled"
        /\ \A b \in DOMAIN workers : workers[b].calls_after_stop <= NumCandidates

\* C11 (as claimed): the callback is purely observational.  With a
\* deterministic oracle the value aes_attack returns is the one the
\* sequential recovery of the blocks gives, whether the callback is absent,
\* returns or raises.
C11_CallbackObservational ==
    (Returned /\ ~inp.env.oracleFaults /\ ~inp.env.coordFaults) =>
        ret = RefResult

\* C12: when an oracle call raises while block b is recovered, block b makes
\* no further oracle call (the failed call is not made again), no exception
\* leaves aes_attack, and aes_attack returns None.
C12_OracleFaultGivesNone ==
    (~inp.env.callbackFaults /\ ~inp.env.coordFaults) =>
        \A b \in DOMAIN workers :
            workers[b].oracle_raised =>
                /\ workers[b].pc = "finished"
                /\ workers[b].calls_after_raise = 0
                /\ ret # RAISED
                /\ Returned => ret = NONE

\* C12 witness: aes_attack has returned from a two-block attack in which the
\* oracle raised for one block after earlier calls had answered, and the
\* other block was recovered to the end.
C12_Witness ==
    /\ Returned
    /\ total_blocks = 2
    /\ \E b \in DOMAIN workers :
          /\ workers[b].oracle_raised
          /\ workers[b].calls > NumCandidates
          /\ \E c \in DOMAIN workers \ {b} :
                /\ ~workers[c].oracle_raised
                /\ workers[c].pc = "finished"

\* the value the call hands back: `recovered` for demonstrate_aes_attack,
\* the return value for aes_attack
Outcome == IF inp.entry = "demonstrate_aes_attack" THEN recovered ELSE ret

\* the call has ended
Ended ==
    IF inp.entry = "demonstrate_aes_attack"
    THEN cpc = "demo_returned"
    ELSE cpc = "returned"

\* C13 (as claimed): when every block is recovered (every position found its
\* byte) and the trailing bytes are not valid PKCS#7 padding, the raw concatenation of the blocks is returned
\* and the callback gets a PaddingError event.
C13_PaddingErrorReported ==
    (Ended /\ Deterministic /\ inp.env.callback # "none" /\
     (\A b \in DOMAIN workers : workers[b].exhausted = {}) /\
     ret.kind = "bytes" /\ ~UnpadOK(ret.data, inp.block_size)) =>
        /\ Outcome = ret
        /\ \E b \in DOMAIN workers :
              \E i \in DOMAIN workers[b].events :
                  workers[b].events[i].tag = "padding_error"

\* C16 (as claimed): the candidate chosen for the last byte of a block
\* (padding value 1) is always one the oracle accepted and then rejected
\* once another byte of the test block was corrupted: it is among the
\* verified values.
C16_ChosenIsDisambiguated ==
    \A b \in DOMAIN workers :
        (workers[b].pc = "found" /\ workers[b].padding_byte = 1) =>
            \E i \in DOMAIN workers[b].verified_values :
                workers[b].verified_values[i] = workers[b].test_byte

\* C17 (as claimed): once a byte position of a block has exhausted all
\* candidates, no further oracle call is made for that block.
C17_HaltOnFirstFailure ==
    \A b \in DOMAIN workers :
        workers[b].exhausted # {} => workers[b].calls_after_exhaustion = 0

\* the block cipher's decryption of target block b, before the CBC xor
Decrypted(b) == DecryptBlock(inp.key, blocks[b + 1])

\* the byte positions of block b whose byte has been found
Solved(b) ==
    {p \in 0 .. (inp.block_size - 1) :
        /\ p \notin workers[b].exhausted
        /\ \/ inp.block_size - p < workers[b].padding_byte
           \/ workers[b].pc \in {"put", "complete", "finished"}}

\* C18 (as claimed): against the correct padding oracle, the intermediate
\* byte recorded for a solved position is the cipher's decryption of the
\* target block at that position.
C18_IntermediateIsDecryption ==
    RoundTripCall =>
        \A b \in DOMAIN workers :
            \A p \in Solved(b) :
                workers[b].intermediate_bytes[p + 1] = Decrypted(b)[p + 1]

\* C19 (as claimed): against the correct padding oracle, in every search
\* query for position p with padding value v the decryption of the target
\* block under the modified previous block reads v at every index above p.
C19_ForcedToPadding ==
    RoundTripCall =>
        \A b \in DOMAIN workers :
            workers[b].pc = "query" =>
                \A i \in (workers[b].byte_pos + 1) .. (inp.block_size - 1) :
                    Xor(Decrypted(b)[i + 1], workers[b].test_block[i + 1])
                        = workers[b].padding_byte

\* C20: within one block the byte positions are taken up in the order
\* block_size-1, block_size-2, ..., 0, position p with padding value
\* block_size - p, and an oracle call for a position is made only after
\* every higher position has had its whole candidate search.
C20_PositionOrder ==
    \A b \in DOMAIN workers :
        LET w == workers[b]
        IN  /\ \A k \in DOMAIN w.attempted :
                  w.attempted[k] = inp.block_size - k
            /\ w.pc \in {"candidate", "query", "verify_check", "verify_query",
                         "found"} =>
                  /\ w.byte_pos = inp.block_size - w.padding_byte
                  /\ w.attempted[Len(w.attempted)] = w.byte_pos
            /\ w.pc \in {"query", "verify_query"} =>
                  w.calls >= (w.padding_byte - 1) * NumCandidates

\* C20 witness: a worker is about to make the last search call of position
\* 0, having taken up every position of the block.
C20_Witness ==
    \E b \in DOMAIN workers :
        /\ workers[b].pc = "query"
        /\ workers[b].byte_pos = 0
        /\ workers[b].test_byte = NumCandidates - 1
        /\ Len(workers[b].attempted) = inp.block_size
        /\ workers[b].calls >= inp.block_size * NumCandidates - 1

---------------------------------------------------------------------------
(* The RSA attacks of src/attacks/rsa: pollard_rho and wiener_attack are   *)
(* functions of their arguments; a run draws the arguments and applies the *)
(* function.                                                               *)

MaxN == 40
MaxIterations == 3
KeyBits == 14
MaxDirectN == 92

\* an int and a tuple of ints as return values
IntValue(d) == [kind |-> "int", data |-> <<d>>]
TupleValue(t) == [kind |-> "tuple", data |-> t]

RECURSIVE gcd(_, _)
\* pollard_rho.gcd, and math.gcd of wiener.py on these arguments
gcd(a, b) == IF b # 0 THEN gcd(b, a % b) ELSE a

abs(a) == IF a < 0 THEN 0 - a ELSE a

\* the sequence function of pollard_rho
f(x, c, n) == (x * x + c) % n

RECURSIVE RhoWalk(_, _, _, _, _, _, _)
\* the while loop of pollard_rho: the d it ends with
RhoWalk(x, y, d, iterations, c, n, max_iterations) ==
    IF d = 1 /\ iterations < max_iterations
    THEN LET x1 == f(x, c, n)
             y1 == f(f(y, c, n), c, n)
         IN  RhoWalk(x1, y1, gcd(abs(x1 - y1), n), iterations + 1, c, n,
                     max_iterations)
    ELSE d

RECURSIVE RhoPolynomials(_, _, _)
\* `for c in range(1, 20)` from c on
RhoPolynomials(c, n, max_iterations) ==
    IF c >= 20 THEN NONE
    ELSE LET d == RhoWalk(2, 2, 1, 0, c, n, max_iterations)
         IN  IF 1 < d /\ d < n THEN IntValue(d)
             ELSE RhoPolynomials(c + 1, n, max_iterations)

pollard_rho(n, max_iterations) ==
    IF n % 2 = 0 THEN IntValue(2) ELSE RhoPolynomials(1, n, max_iterations)

RECURSIVE isqrt(_)
\* math.isqrt
isqrt(n) ==
    IF n < 2 THEN n
    ELSE LET r == 2 * isqrt(n \div 4)
         IN  IF (r + 1) * (r + 1) <= n THEN r + 1 ELSE r

RECURSIVE Quotients(_, _)
\* the first loop of continued_fraction
Quotients(e, n) ==
    IF n # 0 THEN <<e \div n>> \o Quotients(n, e % n) ELSE <<>>

RECURSIVE Convergents(_, _, _, _, _)
\* the second loop of continued_fraction
Convergents(quotients, num1, num2, den1, den2) ==
    IF quotients = <<>> THEN <<>>
    ELSE LET q == Head(quotients)
             num == q * num1 + num2
             den == q * den1 + den2
         IN  <<<<num, den>>>> \o Convergents(Tail(quotients), num, num1, den, den1)

continued_fraction(e, n) == Convergents(Quotients(e, n), 1, 0, 0, 1)

\* a limit taken from the eighth root of n
EighthRootLimit(n) == isqrt(isqrt(isqrt(n))) \div 3

\* wiener_attack: theoretical_limit
TheoreticalLimit(n) == isqrt(isqrt(n)) \div 3

\* one iteration of the loop of wiener_attack: the triple it returns, or
\* NONE when it goes on to the next convergent
TestConvergent(k, d, e, n) ==
    IF k = 0 THEN NONE
    ELSE IF d > TheoreticalLimit(n) THEN NONE
    ELSE IF (e * d - 1) % k # 0 THEN NONE
    ELSE LET phi == (e * d - 1) \div k
             s == n - phi + 1
             discrim == s * s - 4 * n
             t == isqrt(discrim)
             p == (s + t) \div 2
             q == (s - t) \div 2
         IN  IF discrim < 0 THEN NONE
             ELSE IF t * t # discrim THEN NONE
             ELSE IF p * q = n THEN TupleValue(<<d, p, q>>)
             ELSE NONE

RECURSIVE TestConvergents(_, _, _)
\* the loop of wiener_attack over the convergents left
TestConvergents(conv, e, n) ==
    IF conv = <<>> THEN NONE
    ELSE LET r == TestConvergent(Head(conv)[1], Head(conv)[2], e, n)
         IN  IF r # NONE THEN r ELSE TestConvergents(Tail(conv), e, n)

wiener_attack(e, n) == TestConvergents(continued_fraction(e, n), e, n)

IsPrime(k) == k > 1 /\ \A j \in 2 .. (k - 1) : k % j # 0

\* Crypto.Util.number.getPrime(N): the primes of N bits
getPrime(N) == {k \in (2 ^ (N - 1)) .. (2 ^ N - 1) : IsPrime(k)}

\* sympy.mod_inverse(d, phi), which raises when there is none
mod_inverse(d, phi) == CHOOSE e \in 0 .. (phi - 1) : (e * d) % phi = 1

\* an RSA call: the arguments of pollard_rho(n, max_iterations), of
\* wiener_attack(e, n), and the key (n, e, d, p, q) of the self test
RsaCall(entry, n, max_iterations, e, d, p, q) ==
    [entry |-> entry, n |-> n, max_iterations |-> max_iterations, e |-> e,
     d |-> d, p |-> p, q |-> q]

\* the keys generate_vulnerable_key(bits) can return
generate_vulnerable_key(bits) ==
    { RsaCall("run_self_tests", p * q, 0, mod_inverse(d, (p - 1) * (q - 1)),
              d, p, q) :
        <<p, q, d>> \in
            { t \in getPrime(bits \div 2) \X getPrime(bits \div 2)
                        \X getPrime(bits \div 5) :
                /\ t[1] # t[2]
                /\ gcd(t[3], (t[1] - 1) * (t[2] - 1)) = 1
                /\ t[3] <= isqrt(isqrt(t[1] * t[2])) \div 3 } }

RhoInputs ==
    { RsaCall("pollard_rho", n, mi, 0, 0, 0, 0) :
        n \in 2 .. MaxN, mi \in 1 .. MaxIterations }

WienerInputs ==
    generate_vulnerable_key(KeyBits)
    \cup
    { RsaCall("wiener_attack", n, 0, e, 0, 0, 0) :
        n \in 80 .. MaxDirectN, e \in 1 .. MaxDirectN }

RsaInit ==
    /\ inp \in RhoInputs \cup WienerInputs
    /\ cpc = "entry"
    /\ blocks = <<>>
    /\ total_blocks = 0
    /\ threads = 0
    /\ result_queue = <<>>
    /\ results = <<>>
    /\ stop_event = FALSE
    /\ ret = RUNNING
    /\ recovered = RUNNING
    /\ workers = <<>>
    /\ trace = <<>>

\* pollard_rho(n, max_iterations)
PollardRho ==
    /\ cpc = "entry"
    /\ inp.entry = "pollard_rho"
    /\ ret' = pollard_rho(inp.n, inp.max_iterations)
    /\ cpc' = "returned"
    /\ UNCHANGED <<inp, blocks, total_blocks, threads, result_queue, results,
                   stop_event, recovered, workers, trace>>

\* wiener_attack(e, n)
WienerAttack ==
    /\ cpc = "entry"
    /\ inp.entry \in {"wiener_attack", "run_self_tests"}
    /\ ret' = wiener_attack(inp.e, inp.n)
    /\ cpc' = "returned"
    /\ UNCHANGED <<inp, blocks, total_blocks, threads, result_queue, results,
                   stop_event, recovered, workers, trace>>

RsaNext ==
    \/ PollardRho
    \/ WienerAttack

RsaSpec == RsaInit /\ [][RsaNext]_vars

\* C14 (as claimed): for every n >= 2, pollard_rho(n) returns None or a
\* non-trivial factor d of n: 1 < d < n and n mod d = 0.
C14_NonTrivialFactor ==
    (cpc = "returned" /\ inp.entry = "pollard_rho") =>
        \/ ret = NONE
        \/ /\ 1 < ret.data[1]
           /\ ret.data[1] < inp.n
           /\ inp.n % ret.data[1] = 0

\* C15: for a key (n, e, d, p, q) of generate_vulnerable_key,
\* wiener_attack(e, n) returns a triple whose first element is d and whose
\* other two multiply to n; and whatever e and n are, the last two elements
\* of a triple wiener_attack returns multiply to n.
C15_WienerRecoversKey ==
    (cpc = "returned" /\ inp.entry \in {"wiener_attack", "run_self_tests"}) =>
        /\ ret # NONE => ret.data[2] * ret.data[3] = inp.n
        /\ inp.entry = "run_self_tests" =>
              /\ ret # NONE
              /\ ret.data[1] = inp.d

\* C15 witness: wiener_attack has returned the d and the two primes of a
\* generated key.
C15_Witness ==
    /\ cpc = "returned"
    /\ inp.entry = "run_self_tests"
    /\ ret.kind = "tuple"
    /\ ret.data[1] = inp.d
    /\ {ret.data[2], ret.data[3]} = {inp.p, inp.q}
    /\ inp.p # inp.q

\* the set of a sequence's elements
Range(s) == {s[i] : i \in DOMAIN s}

\* the test block the search of position p of block b ran on: the previous
\* block with the positions above p forced to the padding value
SearchBlock(b, p) ==
    ForceKnown(workers[b].previous_block, workers[b].intermediate_bytes, p,
               inp.block_size - p)

\* C21: for a position that is not the last byte of its block (padding
\* value above 1) the candidate chosen is the smallest c for which the
\* oracle accepts test_prev || curr_block with
\* test_prev[position] = prev_block[position] XOR c; a position at which
\* the oracle accepts no c gets no byte.
C21_SmallestAccepted ==
    \A b \in DOMAIN workers :
        LET w == workers[b]
        IN  /\ (w.pc = "found" /\ w.padding_byte > 1) =>
                  LET acc == RefAccepted(SearchBlock(b, w.byte_pos),
                                         w.target_block, w.byte_pos)
                  IN  /\ w.test_byte \in acc
                      /\ \A c \in acc : w.test_byte <= c
                      /\ w.byte_pos \notin w.exhausted
            /\ \A p \in w.exhausted :
                  /\ RefAccepted(SearchBlock(b, p), w.target_block, p) = {}
                  /\ \A k \in DOMAIN w.writes : w.writes[k].pos # p

\* C21 witness: a byte is chosen at a position before the last one where
\* the oracle accepted several candidates.
C21_Witness ==
    \E b \in DOMAIN workers :
        /\ workers[b].pc = "found"
        /\ workers[b].padding_byte > 1
        /\ Len(workers[b].candidate_values) > 1
        /\ workers[b].test_byte = workers[b].candidate_values[1]

\* the events worker b delivered for byte position p with one of the tags
EventsAt(b, p, tags) ==
    SelectSeq(workers[b].events, LAMBDA e : e.pos = p /\ e.tag \in tags)

\* C22 (as claimed): for each byte position attempted the 'testing' events
\* carry the candidates 0, 1, 2, ... in increasing order, and the search
\* of the position ends with exactly one event, 'found' or an
\* exhausted/failed event.
C22_ByteEventProtocol ==
    (Deterministic /\ inp.env.callback # "none") =>
        \A b \in DOMAIN workers :
            workers[b].pc \in {"put", "complete"} =>
                \A p \in Range(workers[b].attempted) :
                    /\ LET testing == EventsAt(b, p, {"testing"})
                       IN  \A k \in DOMAIN testing : testing[k].test_byte = k - 1
                    /\ Len(EventsAt(b, p, {"found", "failed", "exhausted"})) = 1

\* the events of block b that end it
TerminalEvents(b) ==
    SelectSeq(workers[b].events, LAMBDA e : e.tag \in {"complete", "failed"})

\* C23 (as claimed): the callback sees 'block_start' once and first, and for
\* a block that has ended exactly one terminal event, which is the last
\* event of the block.
C23_BlockEventProtocol ==
    (inp.env.callback # "none" /\ ~inp.env.callbackFaults /\ ValidInput) =>
        \A b \in DOMAIN workers :
            LET evs == workers[b].events
            IN  /\ evs # <<>> =>
                      /\ evs[1].tag = "block_start"
                      /\ \A k \in 2 .. Len(evs) : evs[k].tag # "block_start"
                /\ workers[b].pc \in {"finished", "stopped"} =>
                      /\ Len(TerminalEvents(b)) = 1
                      /\ evs[Len(evs)] = TerminalEvents(b)[1]

\* the entries worker b has put on the result queue so far
EntriesOf(b) == SelectSeq(results \o result_queue, LAMBDA r : r.idx = b)

\* C25 (as claimed): the result queue receives exactly one entry per block
\* index: never a second one, and one once the worker has ended.
C25_OneEntryPerBlock ==
    \A b \in DOMAIN workers :
        /\ Len(EntriesOf(b)) <= 1
        /\ workers[b].pc = "finished" => Len(EntriesOf(b)) = 1

\* C30 (as claimed): when aes_attack returns a plaintext, the 'complete'
\* event of every block has been delivered and no worker has a callback
\* invocation ahead of it.
C30_EventsBeforeReturn ==
    (Returned /\ Deterministic /\ inp.env.callback # "none" /\
     ret.kind = "bytes") =>
        \A b \in DOMAIN workers :
            /\ workers[b].pc = "finished"
            /\ Len(TerminalEvents(b)) = 1

\* C24: no backtracking.  Within a block the intermediate and plaintext
\* bytes are written in strictly decreasing position, so each position at
\* most once, and a byte once written keeps its value; a position never
\* written holds the initial 0.
C24_NoBacktracking ==
    \A b \in DOMAIN workers :
        LET w == workers[b]
        IN  /\ \A k \in 2 .. Len(w.writes) : w.writes[k].pos < w.writes[k - 1].pos
            /\ \A k \in DOMAIN w.writes :
                  /\ w.intermediate_bytes[w.writes[k].pos + 1]
                        = w.writes[k].intermediate_byte
                  /\ w.plaintext_bytes[w.writes[k].pos + 1]
                        = w.writes[k].plaintext_byte
            /\ \A i \in DOMAIN w.intermediate_bytes :
                  (\A k \in DOMAIN w.writes : w.writes[k].pos # i - 1) =>
                      w.intermediate_bytes[i] = 0 /\ w.plaintext_bytes[i] = 0

\* C24 witness: every position of a block has been written, the last
\* written with other bytes than the first.
C24_Witness ==
    \E b \in DOMAIN workers :
        /\ Len(workers[b].writes) = inp.block_size
        /\ workers[b].writes[1].plaintext_byte
              # workers[b].writes[inp.block_size].plaintext_byte
        /\ workers[b].pc = "finished"

\* C26 (as claimed): once the stop event is set, no worker makes an oracle
\* call.
C26_NoCallAfterStop ==
    \A b \in DOMAIN workers : workers[b].calls_after_stop = 0

\* C26 (amended): the stop event is read before every oracle call of the
\* candidate search and before every verification call, never during a
\* call; a worker that has passed the check when the event is set still
\* makes that one call, so after the event is set a worker makes at most
\* one more oracle call, and a worker ends this way only when the event is
\* set.
C26_AtMostOneCallAfterStop ==
    \A b \in DOMAIN workers :
        /\ workers[b].calls_after_stop <= 1
        /\ workers[b].pc = "stopped" => stop_event

\* C26 witness: a worker has made an oracle call after the stop event was
\* set and has then ended.
C26_Witness ==
    \E b \in DOMAIN workers :
        /\ stop_event
        /\ workers[b].calls_after_stop = 1
        /\ workers[b].pc = "stopped"

\* lines 24-32: the IV followed by the blocks of the ciphertext
SplitBlocks ==
    LET ct == IF Len(inp.ciphertext) % AES_BLOCK # 0
              THEN Pad(inp.ciphertext, AES_BLOCK)
              ELSE inp.ciphertext
    IN  <<inp.iv>> \o Chunks(ct, inp.block_size)

\* C27: the workers share no mutable data.  What a worker does to its test
\* copy never changes the list of blocks: the previous block and the
\* target block every worker reads are the original IV or ciphertext bytes
\* throughout, and so is the target half of every query.
C27_BlocksUnshared ==
    cpc # "entry" =>
        /\ blocks = SplitBlocks
        /\ \A b \in DOMAIN workers :
              workers[b].pc \notin {"idle", "block_start"} =>
                  /\ workers[b].previous_block = SplitBlocks[b]
                  /\ workers[b].target_block = SplitBlocks[b + 1]
                  /\ workers[b].calls > 0 =>
                        SubSeq(workers[b].last_query,
                               Len(workers[b].last_query)
                                   - Len(SplitBlocks[b + 1]) + 1,
                               Len(workers[b].last_query)) = SplitBlocks[b + 1]

\* C27 witness: in a two-block attack both workers have queried the oracle
\* with a test block that differs from the previous block.
C27_Witness ==
    /\ total_blocks = 2
    /\ \A b \in DOMAIN workers :
          /\ workers[b].calls > 0
          /\ workers[b].pc = "query"
          /\ workers[b].test_block # workers[b].previous_block

\* C29: a value aes_attack returns that is not None is
\* total_blocks * block_size bytes long and is the recovered block of every
\* index 1..total_blocks, each once, in ascending index, also when a worker
\* has put more than one entry on the queue.
C29_WholeBlocksInOrder ==
    (Returned /\ ret.kind = "bytes") =>
        /\ Len(ret.data) = total_blocks * inp.block_size
        /\ ret.data = Join([b \in 1 .. total_blocks |-> workers[b].plaintext_bytes])

\* C29 witness: aes_attack has returned a plaintext of two blocks although
\* one worker put two entries on the queue.
C29_Witness ==
    /\ Returned
    /\ ret.kind = "bytes"
    /\ total_blocks = 2
    /\ \E b \in DOMAIN workers : Len(EntriesOf(b)) = 2

\* demonstrate_aes_attack in every environment: a two-block attack where no
\* callback is passed, a one-block attack where one is
LiveInputs ==
    { DemoCall(FaultPlaintext, k, [i \in 1 .. AES_BLOCK |-> AllOnes], AES_BLOCK, e) :
        k \in Keys, e \in {en \in Environments : en.callback = "none"} }
    \cup
    { DemoCall(<<2>>, k, [i \in 1 .. AES_BLOCK |-> AllOnes], AES_BLOCK, e) :
        k \in Keys, e \in {en \in Environments : en.callback # "none"} }

LiveInit == Init /\ inp \in LiveInputs

\* the threads are scheduled: a thread that can take a step is not held
\* back forever
LiveSpec == LiveInit /\ [][Next]_vars /\ WF_vars(Next)

===========================================================================
